---- MODULE Spec2Model ----
(***************************************************************************)
(* Model of the notebook CreditFraud_autoencoder.ipynb: the cells of the   *)
(* analysis pipeline, run top to bottom.  A cell that raises stops the run *)
(* (pc = "error"); nothing catches an exception anywhere in the notebook.  *)
(*                                                                         *)
(* A table row carries, besides its Class label and its feature vector V,  *)
(* the ghost field `row`: the row's position in the CSV file.  The program *)
(* never reads it (reset_index and .values discard the pandas index); it   *)
(* is what lets a property speak of "the same row of the original table".  *)
(* The Time column, dropped before any use, is left out.                   *)
(* Scaled values and metrics are exact fractions <<numerator, denominator>>*)
(* (the program computes them in double precision).                        *)
(*                                                                         *)
(* Three specifications share the cells' actions:                          *)
(*   Spec        the whole notebook on tables whose rows are told apart by *)
(*               their one feature value; what the classifiers predict is  *)
(*               left out, only what they are given is recorded;           *)
(*   SpecScale   the first two cells on tables of arbitrary feature        *)
(*               vectors (the scaler);                                     *)
(*   SpecMetrics the metric and outcome-plot cells on arbitrary labels,    *)
(*               predicted labels and predicted probabilities.             *)
(***************************************************************************)
EXTENDS Integers, Sequences, FiniteSets, TLC

\* ---------------------------------------------------------------- bounds
MaxRows == 5
MaxSample == 2
MaxFit == 2
\* The tables of the scaling specification: rows, largest feature value.
MaxScaleRows == 3
MaxVal == 2
\* The label arrays of the metric specification: length, probability steps.
MaxLen == 4
ProbLevels == 1

\* The feature columns left after drop(['Class', 'Time']).
FeatureCols == 2

VARIABLES
    pc, ran,
    df, n_samp, n_fit_samp,
    df_resamp,
    X_train_usamp, X_test_usamp, y_train_usamp, y_test_usamp,
    scaler, X_train_usamp_sc, X_test_usamp_sc, svc,
    X_t, figs,
    layers, weights, compiled,
    X_scale, x_sc_norm, x_sc_fraud, fit_samp, fit_call,
    hidden_rep, norm_hid_rep, fraud_hid_rep, X_latent, y_latent,
    X_train, X_test, y_train, y_test, logreg,
    y_true, y_pred, y_prob, printed, pred_res, scatter

usampVars == <<X_train_usamp, X_test_usamp, y_train_usamp, y_test_usamp>>
baseVars == <<scaler, X_train_usamp_sc, X_test_usamp_sc, svc>>
netVars == <<layers, weights, compiled>>
fitVars == <<X_scale, x_sc_norm, x_sc_fraud, fit_samp, fit_call>>
latentVars == <<hidden_rep, norm_hid_rep, fraud_hid_rep, X_latent, y_latent>>
logregVars == <<X_train, X_test, y_train, y_test, logreg>>
inputVars == <<df, n_samp, n_fit_samp>>
predVars == <<y_true, y_pred, y_prob>>
reportVars == <<printed, pred_res, scatter>>

vars == <<pc, ran, inputVars, df_resamp, usampVars, baseVars, X_t, figs,
          netVars, fitVars, latentVars, logregVars, predVars, reportVars>>

\* ------------------------------------------------------- sequence helpers
Range(s) == {s[i] : i \in DOMAIN s}

\* s[idx]: the elements of s at the positions idx, in the order of idx.
Take(s, idx) == [k \in 1..Len(idx) |-> s[idx[k]]]

\* (mutant) positions drawn with replacement.
DrawsWithReplacement(m, k) == [1..k -> 1..m]

\* Every way to draw k positions out of 1..m without replacement, in order.
Draws(m, k) ==
    {f \in [1..k -> 1..m] : \A a, b \in 1..k : a # b => f[a] # f[b]}

Min(S) == CHOOSE x \in S : \A y \in S : x <= y
Max(S) == CHOOSE x \in S : \A y \in S : x >= y

\* ------------------------------------------------------------ the tables
Vals == 0..MaxVal
Vectors == [1..FeatureCols -> Vals]

\* pd.read_csv: a table of n rows, row i carrying its file position i.
\* Tables(n): any labels, any feature vectors over Vals.
Tables(n) ==
    {[i \in 1..n |-> [row |-> i, Class |-> c[i], V |-> v[i]]] :
        c \in [1..n -> {0, 1}], v \in [1..n -> Vectors]}

\* KeyedTables(n): any labels, one feature column whose value in row i is i,
\* so that no two rows agree and a column statistic names the row it is from.
KeyedTables(n) ==
    {[i \in 1..n |-> [row |-> i, Class |-> c[i], V |-> <<i>>]] :
        c \in [1..n -> {0, 1}]}

\* df.drop(['Class', 'Time'], axis=1).values
Features(t) == [i \in 1..Len(t) |-> [row |-> t[i].row, V |-> t[i].V]]

\* df['Class'].values
Labels(t) == [i \in 1..Len(t) |-> t[i].Class]

\* ----------------------------------------------------- train_test_split
\* np.random.RandomState(0).permutation(n), positions counted from 1: the
\* shuffle train_test_split(..., random_state=0) applies to n rows.
SplitPerm(n) ==
    CASE n = 1 -> <<1>>
      [] n = 2 -> <<2, 1>>
      [] n = 3 -> <<3, 2, 1>>
      [] n = 4 -> <<3, 4, 2, 1>>
      [] n = 5 -> <<3, 1, 2, 4, 5>>
      [] n = 6 -> <<6, 3, 2, 4, 1, 5>>
      [] n = 7 -> <<7, 3, 2, 4, 1, 6, 5>>
      [] n = 8 -> <<7, 3, 2, 8, 4, 1, 6, 5>>
      [] n = 9 -> <<8, 3, 2, 5, 9, 7, 4, 1, 6>>
      [] n = 10 -> <<3, 9, 5, 10, 2, 7, 8, 4, 1, 6>>

\* test_size=0.3: n_test = ceil(0.3 * n), the rest is the training split.
NTest(n) == (3 * n + 9) \div 10
NTrain(n) == n - NTest(n)

TestIdx(n) == SubSeq(SplitPerm(n), 1, NTest(n))

\* (mutant) the training positions start one early, on the last test position.
TrainIdxOverlap(n) == SubSeq(SplitPerm(n), NTest(n), n)

TrainIdx(n) == SubSeq(SplitPerm(n), NTest(n) + 1, n)

\* ---------------------------------------------------------- MinMaxScaler
\* (mutant) a zero range is kept.
HandleZerosKept(r) == r

\* _handle_zeros_in_scale: a zero range is replaced by 1.
HandleZeros(r) == IF r = 0 THEN 1 ELSE r

Column(X, j) == {X[i].V[j] : i \in DOMAIN X}

\* MinMaxScaler().fit(X): per column data_min_, data_max_, and the affine
\* map x * scale_ + min_ with scale_ = 1 / range and min_ = 0 - data_min_ * scale_,
\* both kept over the common denominator den.
MinMaxFit(X) ==
    LET W == Len(X[1].V)
        lo == [j \in 1..W |-> Min(Column(X, j))]
        hi == [j \in 1..W |-> Max(Column(X, j))]
        den == [j \in 1..W |-> HandleZeros(hi[j] - lo[j])]
    IN [data_min |-> lo, data_max |-> hi, den |-> den,
        scale_num |-> [j \in 1..W |-> 1],
        min_num |-> [j \in 1..W |-> 0 - lo[j] * 1]]

\* scaler.transform(X): X * scale_ + min_, column by column.
MinMaxTransform(s, X) ==
    [i \in 1..Len(X) |->
        [row |-> X[i].row,
         V |-> [j \in 1..Len(X[i].V) |->
                  <<X[i].V[j] * s.scale_num[j] + s.min_num[j], s.den[j]>>]]]

\* --------------------------------------------------------------- network
\* Dense(units, activation=...); the input layer has no weights of its own.
InputLayer(width) == [kind |-> "Input", units |-> width, activation |-> "none"]
Dense(units, activation) == [kind |-> "Dense", units |-> units, activation |-> activation]

EncUnits1 == 100
EncUnits2 == 50
Epochs == 15

\* Model(inp_lyr, out_lyr).layers: the input layer, then the five Dense layers.
AutoencoderLayers(width) ==
    << InputLayer(width),
       Dense(EncUnits1, "tanh"),
       Dense(EncUnits2, "relu"),
       Dense(EncUnits2, "relu"),
       Dense(EncUnits1, "relu"),
       Dense(width, "relu") >>

\* (mutant) autoencoder.layers[:2].
EncoderSliceShort == <<1, 2>>

\* autoencoder.layers[:3]: positions of the layer objects the encoder shares.
EncoderSlice == <<1, 2, 3>>

\* The Dense layers among the layers a stack refers to.
DenseOf(stack) == {l \in Range(stack) : layers[l].kind = "Dense"}

\* model.predict(X) of a stack of shared layers: one output vector per input
\* row, as wide as the last layer, computed with the weights the layers hold
\* at the time of the call (epochs of training they have seen).
Predict(stack, X) ==
    [i \in 1..Len(X) |->
        [row |-> X[i].row,
         width |-> layers[stack[Len(stack)]].units,
         activation |-> layers[stack[Len(stack)]].activation,
         depth |-> Cardinality(DenseOf(stack)),
         epochs |-> IF DenseOf(stack) = {} THEN 0
                    ELSE Min({weights[l] : l \in DenseOf(stack)})]]

\* validation_split=0.2: the last rows from int(n * (1 - 0.2)) on are held out.
SplitAt(n) == (8 * n) \div 10

\* TSNE(n_components=2).fit_transform(X): one 2-D point per row, rows in order.
Tsne(X) == [i \in 1..Len(X) |-> [row |-> X[i].row, dim |-> 2]]

\* A classifier's fit and roc_auc_score both raise on labels of a single class.
OneClass(y) == Cardinality(Range(y)) < 2

\* What a name holds before the cell that assigns it has run.
NoScaler == [data_min |-> <<>>, data_max |-> <<>>, den |-> <<>>,
             scale_num |-> <<>>, min_num |-> <<>>]
NoModel == [fit_X |-> <<>>, fit_y |-> <<>>, predict_X |-> <<>>]
NoFit == [x |-> <<>>, y |-> <<>>, val_x |-> <<>>, val_y |-> <<>>]

\* ------------------------------------------------------------------ Init
\* The state after the import cell and pd.read_csv, for a table df.
Unassigned ==
    /\ df_resamp = <<>>
    /\ X_train_usamp = <<>> /\ X_test_usamp = <<>>
    /\ y_train_usamp = <<>> /\ y_test_usamp = <<>>
    /\ scaler = NoScaler /\ X_train_usamp_sc = <<>> /\ X_test_usamp_sc = <<>>
    /\ svc = NoModel
    /\ X_t = <<>> /\ figs = {}
    /\ layers = <<>> /\ weights = <<>> /\ compiled = FALSE
    /\ X_scale = <<>> /\ x_sc_norm = <<>> /\ x_sc_fraud = <<>>
    /\ fit_samp = <<>> /\ fit_call = NoFit
    /\ hidden_rep = <<>> /\ norm_hid_rep = <<>> /\ fraud_hid_rep = <<>>
    /\ X_latent = <<>> /\ y_latent = <<>>
    /\ X_train = <<>> /\ X_test = <<>> /\ y_train = <<>> /\ y_test = <<>>
    /\ logreg = NoModel
    /\ printed = <<>> /\ pred_res = <<>> /\ scatter = <<>>

Loaded ==
    /\ pc = "resample" /\ ran = {}
    /\ Unassigned
    /\ y_true = <<>> /\ y_pred = <<>> /\ y_prob = <<>>

Init ==
    /\ \E n \in 1..MaxRows : df \in KeyedTables(n)
    /\ n_samp \in 1..MaxSample
    /\ n_fit_samp \in 1..MaxFit
    /\ Loaded

\* ------------------------------------------------- cell: resample and split
NonFraudRows(t) == SelectSeq(t, LAMBDA r : r.Class = 0)
FraudRows(t) == SelectSeq(t, LAMBDA r : r.Class = 1)

\* (mutant) a request for more rows than there are returns them all.
SampleRowsClipped(t, k) ==
    LET m == IF k > Len(t) THEN Len(t) ELSE k
    IN {[raised |-> FALSE, rows |-> Take(t, f)] : f \in Draws(Len(t), m)}

\* DataFrame.sample(k) and x[np.random.choice(n, k, replace=False)]: k rows
\* without replacement, in drawn order; a ValueError when k exceeds the rows.
SampleRows(t, k) ==
    IF k > Len(t)
    THEN {[raised |-> TRUE, rows |-> <<>>]}
    ELSE {[raised |-> FALSE, rows |-> Take(t, f)] : f \in Draws(Len(t), k)}

\* DataFrame.sample(frac=1): the same rows in any order.
Shuffles(t) == {Take(t, f) : f \in Draws(Len(t), Len(t))}

\* nfraud.append(fraud).sample(frac=1).reset_index(drop=True)
Resampled(nf, t) == Shuffles(nf \o FraudRows(t))

\* Undersample the majority class, then train/test split (one cell).
\* sample(n) raises when n exceeds the rows it draws from; train_test_split
\* raises when the training split would be empty.
ResampleSplit ==
    /\ pc = "resample"
    /\ ran' = ran \cup {"resample"}
    /\ UNCHANGED <<predVars, reportVars>>
    /\ \E nfraud \in SampleRows(NonFraudRows(df), n_samp) :
       IF nfraud.raised
       THEN pc' = "error" /\ UNCHANGED <<df_resamp, usampVars>>
       ELSE \E r \in Resampled(nfraud.rows, df) :
              LET X == Features(r)
                  y == Labels(r)
                  n == Len(r)
              IN /\ df_resamp' = r
                 /\ IF NTrain(n) = 0
                    THEN pc' = "error" /\ UNCHANGED usampVars
                    ELSE /\ pc' = "baseline"
                         /\ X_train_usamp' = Take(X, TrainIdx(n))
                         /\ X_test_usamp' = Take(X, TestIdx(n))
                         /\ y_train_usamp' = Take(y, TrainIdx(n))
                         /\ y_test_usamp' = Take(y, TestIdx(n))
    /\ UNCHANGED <<inputVars, baseVars, X_t, figs,
                   netVars, fitVars, latentVars, logregVars>>

\* ------------------------------------------------------ cell: baseline SVC
\* The scaler is fit and applied, then SVC(probability=True).fit and the four
\* predict calls; svc records what the classifier was given.
\* SVC.fit raises on single-class labels, after the three scaler lines ran.
\* (mutant) the scaler is fit on every resampled row.
ScalerFitInputAll == Features(df_resamp)

ScalerFitInput == X_train_usamp

Baseline ==
    /\ pc = "baseline"
    /\ ran' = ran \cup {"baseline"}
    /\ UNCHANGED <<predVars, reportVars>>
    /\ LET s == MinMaxFit(ScalerFitInput)
           tr == MinMaxTransform(s, X_train_usamp)
           te == MinMaxTransform(s, X_test_usamp)
       IN /\ scaler' = s
          /\ X_train_usamp_sc' = tr
          /\ X_test_usamp_sc' = te
          /\ IF OneClass(y_train_usamp)
             THEN pc' = "error" /\ UNCHANGED svc
             ELSE /\ pc' = "baseline_metrics"
                  /\ svc' = [fit_X |-> tr, fit_y |-> y_train_usamp,
                             predict_X |-> <<tr, te>>]
    /\ UNCHANGED <<inputVars, df_resamp, usampVars, X_t, figs,
                   netVars, fitVars, latentVars, logregVars>>

\* Print metrics: roc_auc_score raises when the true labels hold one class.
\* The printed values are the subject of the metric specification below.
BaselineMetrics ==
    /\ pc = "baseline_metrics"
    /\ ran' = ran \cup {"baseline_metrics"}
    /\ UNCHANGED <<predVars, reportVars>>
    /\ pc' = IF OneClass(y_train_usamp) \/ OneClass(y_test_usamp)
             THEN "error" ELSE "tsne_raw"
    /\ UNCHANGED <<inputVars, df_resamp, usampVars, baseVars, X_t, figs,
                   netVars, fitVars, latentVars, logregVars>>

save_figs == TRUE

\* Perform t-SNE and plot training data.
TsneRaw ==
    /\ pc = "tsne_raw"
    /\ ran' = ran \cup {"tsne_raw"}
    /\ UNCHANGED <<predVars, reportVars>>
    /\ X_t' = Tsne(X_train_usamp)
    /\ figs' = IF save_figs THEN figs \cup {"tsne_raw_data.png"} ELSE figs
    /\ pc' = "build"
    /\ UNCHANGED <<inputVars, df_resamp, usampVars, baseVars,
                   netVars, fitVars, latentVars, logregVars>>

\* ------------------------------------------------------ cells: autoencoder
\* Build the autoencoder, construct the Model and compile it (two cells).
Build ==
    /\ pc = "build"
    /\ ran' = ran \cup {"build"}
    /\ UNCHANGED <<predVars, reportVars>>
    /\ X_train' = X_train_usamp
    /\ layers' = AutoencoderLayers(Len(X_train_usamp[1].V))
    /\ weights' = [l \in 1..6 |-> 0]
    /\ compiled' = TRUE
    /\ pc' = "fitset"
    /\ UNCHANGED <<inputVars, df_resamp, usampVars, baseVars, X_t, figs,
                   fitVars, latentVars, X_test, y_train, y_test, logreg>>

\* The matrix the second scaler is fit on and applied to.
FitSetInput == Features(df)

\* (mutant) the class mask is dropped.
ByClassAll(X, c) == X

\* X[df['Class'].values == c]
ByClass(X, c) == Take(X, SelectSeq([i \in 1..Len(df) |-> i], LAMBDA i : df[i].Class = c))

\* Build the model training set; np.random.choice(n, k, replace=False) raises
\* when k exceeds n, after X_scale, x_sc_norm and x_sc_fraud were assigned.
FitSet ==
    /\ pc = "fitset"
    /\ ran' = ran \cup {"fitset"}
    /\ UNCHANGED <<predVars, reportVars>>
    /\ LET Xs == MinMaxTransform(MinMaxFit(FitSetInput), FitSetInput)
           norm == ByClass(Xs, 0)
       IN /\ X_scale' = Xs
          /\ x_sc_norm' = norm
          /\ x_sc_fraud' = ByClass(Xs, 1)
          /\ \E s \in SampleRows(norm, n_fit_samp) :
               IF s.raised
               THEN pc' = "error" /\ UNCHANGED fit_samp
               ELSE pc' = "train" /\ fit_samp' = s.rows
    /\ UNCHANGED <<inputVars, df_resamp, usampVars, baseVars, X_t, figs,
                   netVars, fit_call, latentVars, logregVars>>

\* autoencoder.fit(x=fit_samp, y=fit_samp, epochs=15, validation_split=0.2)
Train ==
    /\ pc = "train"
    /\ ran' = ran \cup {"train"}
    /\ UNCHANGED <<predVars, reportVars>>
    /\ fit_call' = [x |-> SubSeq(fit_samp, 1, SplitAt(Len(fit_samp))),
                    y |-> SubSeq(fit_samp, 1, SplitAt(Len(fit_samp))),
                    val_x |-> SubSeq(fit_samp, SplitAt(Len(fit_samp)) + 1, Len(fit_samp)),
                    val_y |-> SubSeq(fit_samp, SplitAt(Len(fit_samp)) + 1, Len(fit_samp))]
    /\ weights' = [l \in DOMAIN weights |->
                     IF layers[l].kind = "Dense" THEN weights[l] + Epochs ELSE weights[l]]
    /\ pc' = "latent"
    /\ UNCHANGED <<inputVars, df_resamp, usampVars, baseVars, X_t, figs,
                   layers, compiled, X_scale, x_sc_norm, x_sc_fraud, fit_samp,
                   latentVars, logregVars>>

\* (mutant) the ones come first.
LatentLabelsSwapped(nh, fh) == [i \in 1..Len(fh) |-> 1] \o [i \in 1..Len(nh) |-> 0]

\* np.append(np.zeros(norm_hid_rep.shape[0]), np.ones(fraud_hid_rep.shape[0]))
LatentLabels(nh, fh) == [i \in 1..Len(nh) |-> 0] \o [i \in 1..Len(fh) |-> 1]

\* Obtain latent representations.
Latent ==
    /\ pc = "latent"
    /\ ran' = ran \cup {"latent"}
    /\ UNCHANGED <<predVars, reportVars>>
    /\ hidden_rep' = EncoderSlice
    /\ \E s \in SampleRows(x_sc_norm, n_fit_samp * 2) :
         IF s.raised
         THEN /\ pc' = "error"
              /\ UNCHANGED <<norm_hid_rep, fraud_hid_rep, X_latent, y_latent>>
         ELSE LET nh == Predict(EncoderSlice, s.rows)
                  fh == Predict(EncoderSlice, x_sc_fraud)
              IN /\ norm_hid_rep' = nh
                 /\ fraud_hid_rep' = fh
                 /\ X_latent' = nh \o fh
                 /\ y_latent' = LatentLabels(nh, fh)
                 /\ pc' = "tsne_latent"
    /\ UNCHANGED <<inputVars, df_resamp, usampVars, baseVars, X_t, figs,
                   netVars, fitVars, logregVars>>

\* Visualize latent representations (with t-SNE).
TsneLatent ==
    /\ pc = "tsne_latent"
    /\ ran' = ran \cup {"tsne_latent"}
    /\ UNCHANGED <<predVars, reportVars>>
    /\ X_t' = Tsne(X_latent)
    /\ figs' = IF save_figs THEN figs \cup {"tsne_latent_rep.png"} ELSE figs
    /\ pc' = "logreg"
    /\ UNCHANGED <<inputVars, df_resamp, usampVars, baseVars,
                   netVars, fitVars, latentVars, logregVars>>

\* ---------------------------------------------- cells: latent classifier
\* train_test_split(X_t, y_latent, ...) and LogisticRegression(penalty='l1').fit,
\* which raises on single-class labels after the split was assigned.
LogReg ==
    /\ pc = "logreg"
    /\ ran' = ran \cup {"logreg"}
    /\ UNCHANGED <<predVars, reportVars>>
    /\ LET n == Len(X_t)
       IN IF NTrain(n) = 0
          THEN pc' = "error" /\ UNCHANGED logregVars
          ELSE /\ X_train' = Take(X_t, TrainIdx(n))
               /\ X_test' = Take(X_t, TestIdx(n))
               /\ y_train' = Take(y_latent, TrainIdx(n))
               /\ y_test' = Take(y_latent, TestIdx(n))
               /\ IF OneClass(Take(y_latent, TrainIdx(n)))
                  THEN pc' = "error" /\ UNCHANGED logreg
                  ELSE /\ pc' = "logreg_metrics"
                       /\ logreg' = [fit_X |-> Take(X_t, TrainIdx(n)),
                                     fit_y |-> Take(y_latent, TrainIdx(n)),
                                     predict_X |-> <<Take(X_t, TrainIdx(n)),
                                                     Take(X_t, TestIdx(n))>>]
    /\ UNCHANGED <<inputVars, df_resamp, usampVars, baseVars, X_t, figs,
                   netVars, fitVars, latentVars>>

LogRegMetrics ==
    /\ pc = "logreg_metrics"
    /\ ran' = ran \cup {"logreg_metrics"}
    /\ UNCHANGED <<predVars, reportVars>>
    /\ pc' = IF OneClass(y_train) \/ OneClass(y_test) THEN "error" ELSE "plot"
    /\ UNCHANGED <<inputVars, df_resamp, usampVars, baseVars, X_t, figs,
                   netVars, fitVars, latentVars, logregVars>>

\* Plot correct/incorrect in tSNE space.
Plot ==
    /\ pc = "plot"
    /\ ran' = ran \cup {"plot"}
    /\ UNCHANGED <<predVars, reportVars>>
    /\ figs' = IF save_figs THEN figs \cup {"tsne_latent_rep_confusion.png"} ELSE figs
    /\ pc' = "done"
    /\ UNCHANGED <<inputVars, df_resamp, usampVars, baseVars, X_t,
                   netVars, fitVars, latentVars, logregVars>>

Next ==
    \/ ResampleSplit \/ Baseline \/ BaselineMetrics \/ TsneRaw
    \/ Build \/ FitSet \/ Train \/ Latent \/ TsneLatent
    \/ LogReg \/ LogRegMetrics \/ Plot

Spec == Init /\ [][Next]_vars

\* ------------------------------------------------ scaling specification
\* The first two cells on tables of any feature vectors over Vals.
InitScale ==
    /\ \E n \in 1..MaxScaleRows : df \in Tables(n)
    /\ n_samp \in 1..MaxSample
    /\ n_fit_samp = MaxFit
    /\ Loaded

NextScale == ResampleSplit \/ Baseline

SpecScale == InitScale /\ [][NextScale]_vars

\* ------------------------------------------------- metric specification
\* A fraction <<a, b>> printed with '{:.04f}': the nearest multiple of 1/10000
\* (ties to even), as a count of ten-thousandths.
Fmt4(f) ==
    LET q == (f[1] * 10000) \div f[2]
        r == (f[1] * 10000) % f[2]
    IN IF 2 * r > f[2] THEN q + 1
       ELSE IF 2 * r = f[2] THEN q + (q % 2)
       ELSE q

\* y_prob[:, c]: column c (counted from 0) of the predicted probabilities.
ProbColumn(prob, c) == [i \in DOMAIN prob |-> prob[i][c + 1]]

\* The column passed to roc_auc_score: y_prob[:, 1].
FraudProbColumn == 1

RECURSIVE CountTrue(_)
CountTrue(b) == IF b = <<>> THEN 0 ELSE (IF Head(b) THEN 1 ELSE 0) + CountTrue(Tail(b))

\* (mutant) precision: true positives over predicted positives.
PrecisionScore(yt, yp) ==
    LET tp == CountTrue([i \in DOMAIN yt |-> yt[i] = 1 /\ yp[i] = 1])
        pp == CountTrue([i \in DOMAIN yp |-> yp[i] = 1])
    IN IF pp = 0 THEN <<0, 1>> ELSE <<tp, pp>>

\* recall_score(y_true, y_pred), pos_label=1: tp / (tp + fn), and 0 with a
\* warning when no label is positive.
RecallScore(yt, yp) ==
    LET tp == CountTrue([i \in DOMAIN yt |-> yt[i] = 1 /\ yp[i] = 1])
        pos == CountTrue([i \in DOMAIN yt |-> yt[i] = 1])
    IN IF pos = 0 THEN <<0, 1>> ELSE <<tp, pos>>

\* The distinct values of S in decreasing order: the thresholds of roc_curve.
RECURSIVE Descending(_)
Descending(S) == IF S = {} THEN <<>> ELSE <<Max(S)>> \o Descending(S \ {Max(S)})

\* Twice the area under the ROC polyline over the thresholds ts, in units of
\* (1 / positives) * (1 / negatives), from the point (pf, pt) on.
RECURSIVE Trapezoids(_, _, _, _, _)
Trapezoids(yt, score, ts, pf, pt) ==
    IF ts = <<>> THEN 0
    ELSE LET tps == Cardinality({i \in DOMAIN yt : yt[i] = 1 /\ score[i] >= Head(ts)})
             fps == Cardinality({i \in DOMAIN yt : yt[i] = 0 /\ score[i] >= Head(ts)})
         IN (fps - pf) * (tps + pt) + Trapezoids(yt, score, Tail(ts), fps, tps)

\* roc_auc_score(y_true, y_score): the trapezoid area under roc_curve, whose
\* points are (fps / negatives, tps / positives), starting from (0, 0).
RocAucScore(yt, score) ==
    LET P == Cardinality({i \in DOMAIN yt : yt[i] = 1})
        N == Cardinality({i \in DOMAIN yt : yt[i] = 0})
    IN <<Trapezoids(yt, score, Descending(Range(score)), 0, 0), 2 * P * N>>

\* (mutant) the label weighs one, the prediction ten.
GenPredResSwapped(yt, yp) == [i \in DOMAIN yt |-> yt[i] + yp[i] * 10]

\* gen_pred_res
GenPredRes(yt, yp) == [i \in DOMAIN yt |-> yt[i] * 10 + yp[i]]

\* cases
Cases == (0 :> "TN") @@ (1 :> "FP") @@ (10 :> "FN") @@ (11 :> "TP")

\* A row of predict_proba: <<P(class 0), P(class 1)>>, in units of 1/ProbLevels.
ProbRows == {<<ProbLevels - k, k>> : k \in 0..ProbLevels}

\* The state in which a metric cell starts: true labels with the labels and
\* probabilities some classifier predicted for the same records.
InitMetrics ==
    /\ pc = "print_metrics" /\ ran = {}
    /\ df = <<>> /\ n_samp = MaxSample /\ n_fit_samp = MaxFit
    /\ Unassigned
    /\ \E n \in 1..MaxLen :
          /\ y_true \in [1..n -> {0, 1}]
          /\ y_pred \in [1..n -> {0, 1}]
          /\ y_prob \in [1..n -> ProbRows]

mainVars == <<inputVars, df_resamp, usampVars, baseVars, X_t,
              netVars, fitVars, latentVars, logregVars>>

\* Print metrics: a ROC_AUC line, then a Recall line.  roc_auc_score raises
\* when the true labels hold one class, before anything is printed.
PrintMetrics ==
    /\ pc = "print_metrics"
    /\ ran' = ran \cup {"print_metrics"}
    /\ IF OneClass(y_true)
       THEN pc' = "error" /\ UNCHANGED printed
       ELSE /\ pc' = "plot_outcomes"
            /\ printed' =
                 [roc_auc |-> Fmt4(RocAucScore(y_true, ProbColumn(y_prob, FraudProbColumn))),
                  recall |-> Fmt4(RecallScore(y_true, y_pred))]
    /\ UNCHANGED <<mainVars, predVars, pred_res, scatter, figs>>

\* Plot correct/incorrect in tSNE space: one scatter call per entry of cases,
\* over the records whose pred_res equals the entry's key.
PlotOutcomes ==
    /\ pc = "plot_outcomes"
    /\ ran' = ran \cup {"plot_outcomes"}
    /\ LET res == GenPredRes(y_true, y_pred)
       IN /\ pred_res' = res
          /\ scatter' = [c \in DOMAIN Cases |->
                           [label |-> Cases[c],
                            points |-> {i \in DOMAIN res : res[i] = c}]]
    /\ figs' = IF save_figs THEN figs \cup {"tsne_latent_rep_confusion.png"} ELSE figs
    /\ pc' = "done"
    /\ UNCHANGED <<mainVars, predVars, printed>>

NextMetrics == PrintMetrics \/ PlotOutcomes

SpecMetrics == InitMetrics /\ [][NextMetrics]_vars

\* ============================================================ properties
\* Positions of the rows of class c in the file, and the file rows a matrix holds.
RowsOfClass(c) == {i \in DOMAIN df : df[i].Class = c}
RowIds(X) == {X[i].row : i \in DOMAIN X}
Occurrences(X, r) == Cardinality({i \in DOMAIN X : X[i].row = r})

\* C1: when the table has at least n_samp non-fraud rows, df_resamp has
\* (fraud rows + n_samp) rows: every fraud row exactly once, n_samp distinct
\* non-fraud rows, and each row with the content it has in the table.
C1_ResampleContents ==
    (pc # "resample" /\ n_samp <= Cardinality(RowsOfClass(0))) =>
        /\ Len(df_resamp) = Cardinality(RowsOfClass(1)) + n_samp
        /\ \A r \in RowsOfClass(1) : Occurrences(df_resamp, r) = 1
        /\ \A r \in RowsOfClass(0) : Occurrences(df_resamp, r) <= 1
        /\ Cardinality(RowIds(df_resamp) \cap RowsOfClass(0)) = n_samp
        /\ \A i \in DOMAIN df_resamp : df_resamp[i] = df[df_resamp[i].row]

C1_Witness ==
    /\ pc = "baseline"
    /\ Cardinality(RowsOfClass(0)) > n_samp
    /\ Cardinality(RowsOfClass(1)) >= 2
    /\ n_samp >= 2
    /\ \E i \in DOMAIN df_resamp : i < Len(df_resamp) /\ df_resamp[i].row > df_resamp[i + 1].row

\* C2: after the split no file row is in both splits, the two splits hold
\* exactly the rows of df_resamp, and every feature row sits at the position
\* of its own label.
C2_SplitDisjoint ==
    (X_train_usamp # <<>>) =>
        /\ RowIds(X_train_usamp) \cap RowIds(X_test_usamp) = {}
        /\ RowIds(X_train_usamp) \cup RowIds(X_test_usamp) = RowIds(df_resamp)
        /\ Len(X_train_usamp) + Len(X_test_usamp) = Len(df_resamp)
        /\ Len(y_train_usamp) = Len(X_train_usamp)
        /\ Len(y_test_usamp) = Len(X_test_usamp)
        /\ \A i \in DOMAIN X_train_usamp :
              /\ y_train_usamp[i] = df[X_train_usamp[i].row].Class
              /\ X_train_usamp[i].V = df[X_train_usamp[i].row].V
        /\ \A i \in DOMAIN X_test_usamp :
              /\ y_test_usamp[i] = df[X_test_usamp[i].row].Class
              /\ X_test_usamp[i].V = df[X_test_usamp[i].row].V

C2_Witness ==
    /\ pc = "baseline"
    /\ Len(X_train_usamp) >= 2 /\ Len(X_test_usamp) >= 2
    /\ Cardinality(Range(y_train_usamp)) = 2
    /\ Cardinality(Range(y_test_usamp)) = 2

\* C3: when n_samp exceeds the non-fraud rows of the table, the first cell
\* ends the run in an error: no sample is produced and no later statement or
\* cell (split, scaling, model fitting, plot saving) ever runs.
C3_OversampleAborts ==
    (pc # "resample" /\ n_samp > Cardinality(RowsOfClass(0))) =>
        /\ pc = "error"
        /\ ran = {"resample"}
        /\ df_resamp = <<>>
        /\ X_train_usamp = <<>> /\ X_test_usamp = <<>>
        /\ y_train_usamp = <<>> /\ y_test_usamp = <<>>
        /\ scaler = NoScaler /\ svc = NoModel /\ logreg = NoModel
        /\ fit_call = NoFit /\ layers = <<>> /\ X_latent = <<>>
        /\ figs = {}

C3_Witness ==
    /\ pc = "error"
    /\ n_samp > Cardinality(RowsOfClass(0))
    /\ Cardinality(RowsOfClass(0)) >= 1
    /\ Cardinality(RowsOfClass(1)) >= 1

\* The min-max scaling of matrix M with the column statistics of the file rows
\* R: every entry, as a fraction, is (raw - min) / (max - min), the divisor
\* being 1 for a column that is constant over R.
ColMin(R, j) == Min({df[r].V[j] : r \in R})
ColMax(R, j) == Max({df[r].V[j] : r \in R})
ColDiv(R, j) == IF ColMax(R, j) = ColMin(R, j) THEN 1 ELSE ColMax(R, j) - ColMin(R, j)
ScaledBy(M, R) ==
    \A i \in DOMAIN M : \A j \in DOMAIN M[i].V :
        /\ M[i].V[j][2] > 0
        /\ M[i].V[j][1] * ColDiv(R, j) = (df[M[i].row].V[j] - ColMin(R, j)) * M[i].V[j][2]

TrainRows == RowIds(X_train_usamp)

\* C4 (as stated): every scaled matrix given to a model, the autoencoder's
\* X_scale included, is scaled with the statistics of the training split.
C4_AllScaledByTrainSplit ==
    /\ (svc # NoModel) =>
          /\ ScaledBy(svc.fit_X, TrainRows)
          /\ \A k \in DOMAIN svc.predict_X : ScaledBy(svc.predict_X[k], TrainRows)
    /\ ("fitset" \in ran) => ScaledBy(X_scale, TrainRows)

\* C4 (amended): the matrices given to the baseline classifier are scaled with
\* the statistics of the training split alone; X_scale, from which fit_samp
\* and the encoder's inputs are taken, is scaled with the statistics of all
\* rows of the full table df.
C4_ScalingSources ==
    /\ (svc # NoModel) =>
          /\ svc.fit_X = X_train_usamp_sc
          /\ svc.predict_X = <<X_train_usamp_sc, X_test_usamp_sc>>
          /\ RowIds(svc.fit_X) = TrainRows
          /\ ScaledBy(svc.fit_X, TrainRows)
          /\ \A k \in DOMAIN svc.predict_X : ScaledBy(svc.predict_X[k], TrainRows)
    /\ ("fitset" \in ran) =>
          /\ RowIds(X_scale) = DOMAIN df
          /\ ScaledBy(X_scale, DOMAIN df)
          /\ Range(x_sc_norm) \cup Range(x_sc_fraud) = Range(X_scale)
          /\ Range(fit_samp) \subseteq Range(X_scale)

C4_Witness ==
    /\ pc = "done"
    /\ \E j \in DOMAIN df[1].V :
          /\ ColMin(TrainRows, j) # ColMin(DOMAIN df, j)
          /\ ColMax(TrainRows, j) # ColMax(DOMAIN df, j)
          /\ ColMin(TrainRows, j) # ColMax(TrainRows, j)

\* C6: every record the autoencoder is fit on, and every record of its
\* held-out validation part, is a non-fraud row of the table; together they
\* are fit_samp, and the fit target is the fit input.
C6_FitOnNonFraudOnly ==
    ("train" \in ran) =>
        /\ fit_call.x \o fit_call.val_x = fit_samp
        /\ Len(fit_samp) = n_fit_samp
        /\ \A i \in DOMAIN fit_call.x : df[fit_call.x[i].row].Class = 0
        /\ \A i \in DOMAIN fit_call.val_x : df[fit_call.val_x[i].row].Class = 0
        /\ fit_call.y = fit_call.x
        /\ fit_call.val_y = fit_call.val_x
        /\ \A i \in DOMAIN fit_samp : fit_samp[i] = X_scale[fit_samp[i].row]

C6_Witness ==
    /\ "train" \in ran
    /\ fit_call.x # <<>> /\ fit_call.val_x # <<>>
    /\ RowsOfClass(1) # {}
    /\ \E r \in RowsOfClass(1) : r < fit_call.x[1].row

\* C7: the latent vectors are outputs of the autoencoder's first two Dense
\* layers (100 tanh, then 50 relu: width 50), computed after training, with
\* the trained weights, for 2 * n_fit_samp non-fraud rows and every fraud row.
C7_LatentFromTrainedEncoder ==
    (norm_hid_rep # <<>> \/ fraud_hid_rep # <<>>) =>
        /\ "train" \in ran
        /\ [k \in DOMAIN hidden_rep |-> layers[hidden_rep[k]]] =
              <<InputLayer(Len(df[1].V)), Dense(100, "tanh"), Dense(50, "relu")>>
        /\ \A i \in DOMAIN X_latent :
              /\ X_latent[i].width = 50
              /\ X_latent[i].depth = 2
              /\ X_latent[i].epochs = 15
        /\ RowIds(fraud_hid_rep) = RowsOfClass(1)
        /\ Len(fraud_hid_rep) = Cardinality(RowsOfClass(1))
        /\ RowIds(norm_hid_rep) \subseteq RowsOfClass(0)
        /\ Cardinality(RowIds(norm_hid_rep)) = 2 * n_fit_samp

C7_Witness ==
    /\ pc = "done"
    /\ Len(fraud_hid_rep) >= 2 /\ Len(norm_hid_rep) >= 2

\* C10: X_latent and y_latent have 2 * n_fit_samp + (fraud rows) rows each,
\* y_latent[i] is the class of the row X_latent[i] encodes, and the pairing
\* survives the 2-D projection and the train/test split of the classifier.
C10_LatentPairing ==
    /\ (X_latent # <<>>) =>
          /\ Len(X_latent) = 2 * n_fit_samp + Cardinality(RowsOfClass(1))
          /\ Len(y_latent) = Len(X_latent)
          /\ \A i \in DOMAIN X_latent : y_latent[i] = df[X_latent[i].row].Class
    /\ ("tsne_latent" \in ran) =>
          /\ Len(X_t) = Len(y_latent)
          /\ \A i \in DOMAIN X_t : X_t[i].row = X_latent[i].row /\ X_t[i].dim = 2
    /\ (y_train # <<>>) =>
          /\ Len(X_train) = Len(y_train) /\ Len(X_test) = Len(y_test)
          /\ Len(X_train) + Len(X_test) = Len(X_latent)
          /\ RowIds(X_train) \cup RowIds(X_test) = RowIds(X_latent)
          /\ \A i \in DOMAIN X_train : y_train[i] = df[X_train[i].row].Class
          /\ \A i \in DOMAIN X_test : y_test[i] = df[X_test[i].row].Class

C10_Witness ==
    /\ pc = "done"
    /\ Cardinality(Range(y_test)) = 2
    /\ Cardinality(Range(y_train)) = 2

\* Whether the fraction f, of positive denominator, lies in [0, 1].
InUnit(f) == f[2] > 0 /\ 0 <= f[1] /\ f[1] <= f[2]

TestRows == RowIds(X_test_usamp)

Fraud == {i \in DOMAIN y_true : y_true[i] = 1}
NonFraud == {i \in DOMAIN y_true : y_true[i] = 0}
Hits == {i \in Fraud : y_pred[i] = 1}
\* Pairs (fraud, non-fraud) ranked right count 2, tied pairs 1.
RankedPairs ==
    2 * Cardinality({p \in Fraud \X NonFraud : y_prob[p[1]][2] > y_prob[p[2]][2]})
      + Cardinality({p \in Fraud \X NonFraud : y_prob[p[1]][2] = y_prob[p[2]][2]})

\* C8: the printed recall is (fraud records predicted fraud) / (fraud
\* records), the printed ROC-AUC is the rank statistic of the fraud-class
\* probabilities (column 1), and both lie in [0, 1].
C8_MetricsInUnit ==
    (printed # <<>>) =>
        /\ Fraud # {}
        /\ printed.recall = Fmt4(<<Cardinality(Hits), Cardinality(Fraud)>>)
        /\ printed.roc_auc =
              Fmt4(<<RankedPairs, 2 * Cardinality(Fraud) * Cardinality(NonFraud)>>)
        /\ 0 <= printed.recall /\ printed.recall <= 10000
        /\ 0 <= printed.roc_auc /\ printed.roc_auc <= 10000

C8_Witness ==
    /\ printed # <<>>
    /\ Cardinality(Fraud) >= 2 /\ Cardinality(NonFraud) >= 2
    /\ printed.recall = 5000
    /\ \E i \in NonFraud : y_pred[i] = 1
    /\ printed.roc_auc \notin {0, 5000, 10000}

\* The cell of the confusion matrix a (true, predicted) pair belongs to.
Cell(t, p) ==
    IF t = 0 THEN (IF p = 0 THEN "TN" ELSE "FP") ELSE (IF p = 0 THEN "FN" ELSE "TP")

\* C9: gen_pred_res gives 10 * t + p, one of the keys 0, 1, 10, 11 of cases;
\* every record is drawn in exactly one group, the one labelled with the
\* confusion-matrix cell of its (t, p).
C9_OutcomeGroups ==
    (pc = "done" /\ "plot_outcomes" \in ran) =>
        /\ DOMAIN scatter = {0, 1, 10, 11}
        /\ \A i \in DOMAIN y_true :
              /\ pred_res[i] = 10 * y_true[i] + y_pred[i]
              /\ pred_res[i] \in DOMAIN scatter
              /\ Cardinality({c \in DOMAIN scatter : i \in scatter[c].points}) = 1
              /\ \A c \in DOMAIN scatter :
                    i \in scatter[c].points <=> scatter[c].label = Cell(y_true[i], y_pred[i])

C9_Witness ==
    /\ pc = "done" /\ "plot_outcomes" \in ran
    /\ \A c \in DOMAIN scatter : scatter[c].points # {}
====
